---- MODULE Spec2Model ----
(***************************************************************************)
(* Model of src/main.py: the tower-leg elevation drawing generator.        *)
(*                                                                         *)
(* Strings are sequences of one-character strings.  Python floats are      *)
(* modelled as exact rationals <<n, d>> (d > 0, lowest terms); Python's    *)
(* None and an unassigned local are the empty tuple <<>>.                  *)
(***************************************************************************)
EXTENDS Integers, Sequences, FiniteSets, TLC

VARIABLES df, pc, maps, msp, loc, err, nb

vars == <<df, pc, maps, msp, loc, err, nb>>

\* ------------------------------------------------------------------ bounds

\* Longest label drawn by the label-level specification.
MaxLen == 5

\* Most rows of one tower's dataframe.
MaxRows == 3

\* ------------------------------------------------------------- rationals

None == <<>>

Abs(n) == IF n < 0 THEN -n ELSE n

RECURSIVE GCD(_, _)
GCD(a, b) == IF b = 0 THEN a ELSE GCD(b, a % b)

Norm(n, d) ==
  LET g == GCD(Abs(n), Abs(d))
      s == IF d < 0 THEN -1 ELSE 1
  IN <<(s * n) \div g, (s * d) \div g>>

R(n) == <<n, 1>>
RAdd(a, b) == Norm(a[1] * b[2] + b[1] * a[2], a[2] * b[2])
RNeg(a) == <<-a[1], a[2]>>
RSub(a, b) == RAdd(a, RNeg(b))
RMul(a, b) == Norm(a[1] * b[1], a[2] * b[2])
RDiv(a, b) == Norm(a[1] * b[2], a[2] * b[1])
RLe(a, b) == a[1] * b[2] <= b[1] * a[2]
RLt(a, b) == a[1] * b[2] < b[1] * a[2]
RMin(a, b) == IF RLe(a, b) THEN a ELSE b
RMax(a, b) == IF RLe(a, b) THEN b ELSE a

\* ----------------------------------------------------------------- text

Digits == <<"0", "1", "2", "3", "4", "5", "6", "7", "8", "9">>
IsDigit(c) == \E i \in 1..10 : Digits[i] = c
DigitVal(c) == (CHOOSE i \in 1..10 : Digits[i] = c) - 1

\* str.strip() removes whitespace at both ends; str.replace(" ", "") removes
\* only the space character.
IsWs(c) == c \in {" ", "\t"}

RECURSIVE LStrip(_)
LStrip(s) == IF s # <<>> /\ IsWs(Head(s)) THEN LStrip(Tail(s)) ELSE s

RECURSIVE RStrip(_)
RStrip(s) ==
  IF s # <<>> /\ IsWs(s[Len(s)]) THEN RStrip(SubSeq(s, 1, Len(s) - 1)) ELSE s

Strip(s) == RStrip(LStrip(s))

Contains(s, c) == \E i \in 1..Len(s) : s[i] = c
IndexOf(s, c) == CHOOSE i \in 1..Len(s) : s[i] = c /\ \A j \in 1..(i - 1) : s[j] # c

\* s.split(sep, 1)[0] and s.split(sep, 1)[1]
Before(s, c) == IF Contains(s, c) THEN SubSeq(s, 1, IndexOf(s, c) - 1) ELSE s
After(s, c) == SubSeq(s, IndexOf(s, c) + 1, Len(s))

ReplaceChar(s, a, b) == [i \in 1..Len(s) |-> IF s[i] = a THEN b ELSE s[i]]
RemoveChar(s, a) == LET Keep(c) == c # a IN SelectSeq(s, Keep)

RECURSIVE DigitsValue(_)
DigitsValue(s) ==
  IF s = <<>> THEN 0
  ELSE 10 * DigitsValue(SubSeq(s, 1, Len(s) - 1)) + DigitVal(s[Len(s)])

RECURSIVE Pow10(_)
Pow10(k) == IF k = 0 THEN 1 ELSE 10 * Pow10(k - 1)

\* The value of a decimal literal: sign, integer digits, fraction digits.
Decimal(neg, ip, fp) ==
  LET v == Norm(DigitsValue(ip) * Pow10(Len(fp)) + DigitsValue(fp), Pow10(Len(fp)))
  IN IF neg THEN RNeg(v) ELSE v

\* float(s) on the characters the model draws: optional surrounding
\* whitespace, an optional sign, digits with at most one '.', at least one
\* digit.  None stands for ValueError.
PyFloat(s) ==
  LET t == Strip(s)
      signed == t # <<>> /\ t[1] \in {"+", "-"}
      body == IF signed THEN Tail(t) ELSE t
      ip == Before(body, ".")
      fp == IF Contains(body, ".") THEN After(body, ".") ELSE <<>>
      ok == /\ \A i \in 1..Len(ip) : IsDigit(ip[i])
            /\ \A i \in 1..Len(fp) : IsDigit(fp[i])
            /\ Len(ip) + Len(fp) > 0
  IN IF ok THEN Decimal(signed /\ t[1] = "-", ip, fp) ELSE None

normalize_base(leg_type) ==
  LET s0 == Strip(leg_type)
      s1 == IF Contains(s0, "/") THEN Strip(Before(s0, "/")) ELSE s0
      s2 == IF Contains(s1, "(") THEN Strip(Before(s1, "(")) ELSE s1
      s3 == RemoveChar(s2, " ")
  IN IF s3 # <<>> /\ s3[1] = "+" THEN Tail(s3) ELSE s3

\* Length of the longest run of digits of p that starts at position j.
RECURSIVE DigitRun(_, _)
DigitRun(p, j) ==
  IF j <= Len(p) /\ IsDigit(p[j]) THEN 1 + DigitRun(p, j + 1) ELSE 0

\* re.search(r"[+-]?\d+(?:[.,]\d+)?", p): the leftmost match, greedy.
\* The result is <<neg, integer digits, fraction digits>>, or None.
RegexNumber(p) ==
  LET DigitsAt(i) ==
        IF p[i] \in {"+", "-"} /\ DigitRun(p, i + 1) > 0 THEN i + 1
        ELSE IF IsDigit(p[i]) THEN i
        ELSE 0
      starts == {i \in 1..Len(p) : DigitsAt(i) > 0}
  IN IF starts = {} THEN None
     ELSE LET i == CHOOSE k \in starts : \A m \in starts : k <= m
              j == DigitsAt(i)
              n == DigitRun(p, j)
              e == j + n
              fn == IF e <= Len(p) /\ p[e] \in {".", ","}
                    THEN DigitRun(p, e + 1) ELSE 0
          IN <<j > i /\ p[i] = "-",
               SubSeq(p, j, e - 1),
               IF fn > 0 THEN SubSeq(p, e + 1, e + fn) ELSE <<>> >>

parse_offset_value(leg_type) ==
  IF ~Contains(leg_type, "/") THEN None
  ELSE LET part == Before(After(leg_type, "/"), "(")
           m == RegexNumber(part)
       IN IF m = None THEN None ELSE Decimal(m[1], m[2], m[3])

\* NaN cell of the dataframe (pd.isna holds of it).
NaNCell == <<"nan">>

parse_distance(val) ==
  IF val = NaNCell THEN None
  ELSE PyFloat(ReplaceChar(Strip(val), ",", "."))

\* ------------------------------------------------------- compute_y_maps

\* A dict is a sequence of <<key, value>> pairs in insertion order.
HasKey(m, k) == \E i \in 1..Len(m) : m[i][1] = k
Lookup(m, k) == m[CHOOSE i \in 1..Len(m) : m[i][1] = k][2]

\* df["Leg Type"].unique(): the labels in order of first appearance.
RECURSIVE UniqueLabels(_)
UniqueLabels(d) ==
  IF d = <<>> THEN <<>>
  ELSE LET r == UniqueLabels(SubSeq(d, 1, Len(d) - 1))
           lt == d[Len(d)].lt
       IN IF \E i \in 1..Len(r) : r[i] = lt THEN r ELSE Append(r, lt)

\* The y of a base seen for the first time (lines 115-124).
BaseY(base) ==
  IF base = <<"N">> THEN R(0)
  ELSE LET v == PyFloat(ReplaceChar(base, ",", "."))
           base_val == IF v = None THEN R(0) ELSE v
       IN RMul(R(-1000), base_val)

\* Mutant of VariantY: the offset added instead of subtracted.
VariantY_added(y_base, lt) ==
  LET offset == parse_offset_value(lt)
  IN IF offset # None THEN RAdd(y_base, RMul(offset, R(1000))) ELSE y_base

\* Lines 130-135.
VariantY(y_base, lt) ==
  LET offset == parse_offset_value(lt)
  IN IF offset # None THEN RSub(y_base, RMul(offset, R(1000))) ELSE y_base

\* One iteration of the loop of lines 110-137.
YMapsStep(acc, lt) ==
  LET base == normalize_base(lt)
      known == HasKey(acc.y_base_map, base)
      y_base == IF known THEN Lookup(acc.y_base_map, base) ELSE BaseY(base)
  IN [base_order |-> IF known THEN acc.base_order ELSE Append(acc.base_order, base),
      y_base_map |-> IF known THEN acc.y_base_map
                     ELSE Append(acc.y_base_map, <<base, y_base>>),
      y_variant_map |-> Append(acc.y_variant_map, <<lt, VariantY(y_base, lt)>>)]

EmptyMaps == [base_order |-> <<>>, y_base_map |-> <<>>, y_variant_map |-> <<>>]

RECURSIVE YMapsLoop(_)
YMapsLoop(lts) ==
  IF lts = <<>> THEN EmptyMaps
  ELSE YMapsStep(YMapsLoop(SubSeq(lts, 1, Len(lts) - 1)), lts[Len(lts)])

compute_y_maps(d) == YMapsLoop(UniqueLabels(d))

\* ------------------------------------------------------------ draw_tower

X_MIN == -15000
X_MAX == 15000
TEXT_HEIGHT == 250
TITLE_HEIGHT == 500
LEFT_LABEL_EXTRA_OFFSET == 2000
EXTRA_Y == 1200
BOX_HALF_WIDTH == 353
BOX_HEIGHT == 400
TICK_HALF_HEIGHT == 100
BOX_LIFT == 100
CENTERLINE_MARGIN == 1000
TITLE_MARGIN == 2000

LAYER_BASE_VARIANTS == "BASE_VARIANTS"
LAYER_OFFSET_VARIANTS == "OFFSET_VARIANTS"
LAYER_CENTERLINE == "CENTERLINE"
LAYER_ANNOTATIONS == "ANNOTATIONS"
LAYER_ANGLED_LINES == "ANGLED_LINES"

\* An entity of the modelspace.  part, side and lt record which statement
\* of draw_tower added the entity, on which side, and for which label.
Line(x1, y1, x2, y2, layer, part, side, lt) ==
  [kind |-> "LINE", x1 |-> x1, y1 |-> y1, x2 |-> x2, y2 |-> y2,
   layer |-> layer, part |-> part, side |-> side, lt |-> lt,
   height |-> 0, linetype |-> IF part = "centerline" THEN "CENTER" ELSE "BYLAYER"]

Text(x, y, height, part, lt) ==
  [kind |-> "TEXT", x1 |-> x, y1 |-> y, x2 |-> x, y2 |-> y,
   layer |-> LAYER_ANNOTATIONS, part |-> part, side |-> "none", lt |-> lt,
   height |-> height, linetype |-> "BYLAYER"]

RECURSIVE Concat(_)
Concat(ss) == IF ss = <<>> THEN <<>> ELSE Head(ss) \o Concat(Tail(ss))

\* Layer of a label's horizontal line and of its goalposts (lines 189-191,
\* 299-300).
VariantLayer(lt) ==
  IF parse_offset_value(lt) # None THEN LAYER_OFFSET_VARIANTS
  ELSE LAYER_BASE_VARIANTS

\* Lines 185-219: one horizontal line and two texts per label.
HorizontalsFor(e) ==
  LET lt == e[1]
      y == e[2]
  IN << Line(R(X_MIN), y, R(X_MAX), y, VariantLayer(lt), "horizontal", "none", lt),
        Text(R(X_MIN - LEFT_LABEL_EXTRA_OFFSET), RAdd(y, R(TEXT_HEIGHT)),
             TEXT_HEIGHT, "label", lt),
        Text(R(X_MAX), RAdd(y, R(TEXT_HEIGHT)), TEXT_HEIGHT, "label", lt) >>

\* min(d, key=...) and max(d, key=...): the first key, in insertion order,
\* whose value is the least (greatest).
ArgMin(m) ==
  CHOOSE i \in 1..Len(m) :
    /\ \A j \in 1..Len(m) : RLe(m[i][2], m[j][2])
    /\ \A j \in 1..(i - 1) : m[j][2] # m[i][2]

ArgMax(m) ==
  CHOOSE i \in 1..Len(m) :
    /\ \A j \in 1..Len(m) : RLe(m[j][2], m[i][2])
    /\ \A j \in 1..(i - 1) : m[j][2] # m[i][2]

\* df[df["Leg Type"] == lt].iloc[0]: the first row of the label.
FirstRow(d, lt) ==
  d[CHOOSE i \in 1..Len(d) : d[i].lt = lt /\ \A j \in 1..(i - 1) : d[j].lt # lt]

\* Lines 279: the label's y lies between the lowest and the highest line.
InSpan(y, l) ==
  /\ RLe(RMin(l.y_low, l.y_high), y)
  /\ RLe(y, RMax(l.y_low, l.y_high))

\* Lines 283-284, 361-362: where the positive angled line crosses height y.
IntersectionX(y, l) ==
  RAdd(l.x_low, RMul(l.dx, RDiv(RSub(y, l.y_low), l.dy)))

\* Lines 277-345: the goalposts of one label.
TicksFor(e, d, l) ==
  LET lt == e[1]
      y == e[2]
      half_diag == parse_distance(FirstRow(d, lt).half)
  IN IF ~InSpan(y, l) \/ half_diag = None THEN <<>>
     ELSE LET x_pos == IntersectionX(y, l)
              x_center_neg == RNeg(x_pos)
              layer_tick == VariantLayer(lt)
              y_bottom == RSub(y, R(TICK_HALF_HEIGHT))
              y_top == RAdd(y, R(TICK_HALF_HEIGHT))
              x1_neg == RSub(x_center_neg, half_diag)
              x2_neg == RAdd(x_center_neg, half_diag)
              x1_pos == RSub(x_pos, half_diag)
              x2_pos == RAdd(x_pos, half_diag)
          IN << Line(x1_neg, y_bottom, x1_neg, y_top, layer_tick, "tick", "neg", lt),
                Line(x2_neg, y_bottom, x2_neg, y_top, layer_tick, "tick", "neg", lt),
                Line(x1_neg, y_top, x2_neg, y_top, layer_tick, "tick", "neg", lt),
                Line(x1_pos, y_bottom, x1_pos, y_top, layer_tick, "tick", "pos", lt),
                Line(x2_pos, y_bottom, x2_pos, y_top, layer_tick, "tick", "pos", lt),
                Line(x1_pos, y_top, x2_pos, y_top, layer_tick, "tick", "pos", lt) >>

\* Mutant of BoxEligible: the offset variants are not skipped.
BoxEligible_anyvariant(e, l) == InSpan(e[2], l)

\* Lines 353-358: the labels the box loop does not skip.
BoxEligible(e, l) == parse_offset_value(e[1]) = None /\ InSpan(e[2], l)

\* Mutant of BoxFor: the negative box leans the way the positive one does.
BoxFor_sameshift(e, l) ==
  LET lt == e[1]
      y == e[2]
      x_pos_box == IntersectionX(y, l)
      y_base_box == RAdd(y, R(BOX_LIFT))
      t_height == RDiv(R(BOX_HEIGHT), l.dy)
      y_top_box == RAdd(y_base_box, R(BOX_HEIGHT))
      x_neg_center == RNeg(x_pos_box)
      x_left_neg == RSub(x_neg_center, R(BOX_HALF_WIDTH))
      x_right_neg == RAdd(x_neg_center, R(BOX_HALF_WIDTH))
      delta_x_neg == RMul(l.dx, t_height)
      x_left_neg_top == RAdd(x_left_neg, delta_x_neg)
      x_right_neg_top == RAdd(x_right_neg, delta_x_neg)
      x_left_pos == RSub(x_pos_box, R(BOX_HALF_WIDTH))
      x_right_pos == RAdd(x_pos_box, R(BOX_HALF_WIDTH))
      delta_x_pos == RMul(l.dx, t_height)
      x_left_pos_top == RAdd(x_left_pos, delta_x_pos)
      x_right_pos_top == RAdd(x_right_pos, delta_x_pos)
      box_layer == LAYER_BASE_VARIANTS
  IN << Line(x_left_neg, y_base_box, x_left_neg_top, y_top_box, box_layer, "box", "neg", lt),
        Line(x_right_neg, y_base_box, x_right_neg_top, y_top_box, box_layer, "box", "neg", lt),
        Line(x_left_neg_top, y_top_box, x_right_neg_top, y_top_box, box_layer, "box", "neg", lt),
        Line(x_left_pos, y_base_box, x_left_pos_top, y_top_box, box_layer, "box", "pos", lt),
        Line(x_right_pos, y_base_box, x_right_pos_top, y_top_box, box_layer, "box", "pos", lt),
        Line(x_left_pos_top, y_top_box, x_right_pos_top, y_top_box, box_layer, "box", "pos", lt) >>

\* Lines 361-439: the slanted box of one label.
BoxFor(e, l) ==
  LET lt == e[1]
      y == e[2]
      x_pos_box == IntersectionX(y, l)
      y_base_box == RAdd(y, R(BOX_LIFT))
      t_height == RDiv(R(BOX_HEIGHT), l.dy)
      y_top_box == RAdd(y_base_box, R(BOX_HEIGHT))
      x_neg_center == RNeg(x_pos_box)
      x_left_neg == RSub(x_neg_center, R(BOX_HALF_WIDTH))
      x_right_neg == RAdd(x_neg_center, R(BOX_HALF_WIDTH))
      delta_x_neg == RMul(RNeg(l.dx), t_height)
      x_left_neg_top == RAdd(x_left_neg, delta_x_neg)
      x_right_neg_top == RAdd(x_right_neg, delta_x_neg)
      x_left_pos == RSub(x_pos_box, R(BOX_HALF_WIDTH))
      x_right_pos == RAdd(x_pos_box, R(BOX_HALF_WIDTH))
      delta_x_pos == RMul(l.dx, t_height)
      x_left_pos_top == RAdd(x_left_pos, delta_x_pos)
      x_right_pos_top == RAdd(x_right_pos, delta_x_pos)
      box_layer == LAYER_BASE_VARIANTS
  IN << Line(x_left_neg, y_base_box, x_left_neg_top, y_top_box, box_layer, "box", "neg", lt),
        Line(x_right_neg, y_base_box, x_right_neg_top, y_top_box, box_layer, "box", "neg", lt),
        Line(x_left_neg_top, y_top_box, x_right_neg_top, y_top_box, box_layer, "box", "neg", lt),
        Line(x_left_pos, y_base_box, x_left_pos_top, y_top_box, box_layer, "box", "pos", lt),
        Line(x_right_pos, y_base_box, x_right_pos_top, y_top_box, box_layer, "box", "pos", lt),
        Line(x_left_pos_top, y_top_box, x_right_pos_top, y_top_box, box_layer, "box", "pos", lt) >>

\* Mutant of AngledLines: the upper end moved by dx, the fraction t_ext lost.
AngledLines_noslope(l) ==
  LET x_high_ext == RAdd(l.x_high, l.dx)
      y_high_ext == RAdd(l.y_high, R(EXTRA_Y))
  IN << Line(l.x_low, l.y_low, x_high_ext, y_high_ext,
             LAYER_ANGLED_LINES, "angled", "pos", <<>>),
        Line(RNeg(l.x_low), l.y_low, RNeg(x_high_ext), y_high_ext,
             LAYER_ANGLED_LINES, "angled", "neg", <<>>) >>

\* Lines 248-270: the two angled lines.
AngledLines(l) ==
  LET t_ext == RDiv(R(EXTRA_Y), l.dy)
      x_high_ext == RAdd(l.x_high, RMul(l.dx, t_ext))
      y_high_ext == RAdd(l.y_high, R(EXTRA_Y))
  IN << Line(l.x_low, l.y_low, x_high_ext, y_high_ext,
             LAYER_ANGLED_LINES, "angled", "pos", <<>>),
        Line(RNeg(l.x_low), l.y_low, RNeg(x_high_ext), y_high_ext,
             LAYER_ANGLED_LINES, "angled", "neg", <<>>) >>

Unbound == <<>>

NoLocals ==
  [y_max |-> Unbound, y_min |-> Unbound, lowest |-> Unbound, highest |-> Unbound,
   y_low |-> Unbound, y_high |-> Unbound, x_low |-> Unbound, x_high |-> Unbound,
   dx |-> Unbound, dy |-> Unbound]

\* Lines 180-181.
LocalsAfterMaps(m) ==
  [NoLocals EXCEPT !.y_max = m[ArgMax(m)][2], !.y_min = m[ArgMin(m)][2]]

\* Lines 185-219.
Horizontals(m) == Concat([i \in 1..Len(m) |-> HorizontalsFor(m[i])])

\* Mutant of LocalsAfterExtremes: the extremes taken among the labels that
\* have a ground distance (among all labels when none has).
LocalsAfterExtremes_known(d, m, l) ==
  LET Known(e) == parse_distance(FirstRow(d, e[1]).dist) # None
      known == SelectSeq(m, Known)
      mk == IF known = <<>> THEN m ELSE known
      lowest_leg_type == mk[ArgMin(mk)][1]
      highest_leg_type == mk[ArgMax(mk)][1]
  IN [l EXCEPT !.lowest = lowest_leg_type,
               !.highest = highest_leg_type,
               !.y_low = Lookup(m, lowest_leg_type),
               !.y_high = Lookup(m, highest_leg_type),
               !.x_low = parse_distance(FirstRow(d, lowest_leg_type).dist),
               !.x_high = parse_distance(FirstRow(d, highest_leg_type).dist)]

\* Lines 224-243.
LocalsAfterExtremes(d, m, l) ==
  LET lowest_leg_type == m[ArgMin(m)][1]
      highest_leg_type == m[ArgMax(m)][1]
  IN [l EXCEPT !.lowest = lowest_leg_type,
               !.highest = highest_leg_type,
               !.y_low = Lookup(m, lowest_leg_type),
               !.y_high = Lookup(m, highest_leg_type),
               !.x_low = parse_distance(FirstRow(d, lowest_leg_type).dist),
               !.x_high = parse_distance(FirstRow(d, highest_leg_type).dist)]

\* Line 246.
HasAngled(l) == l.x_low # None /\ l.x_high # None /\ l.y_high # l.y_low

\* Lines 249-250.
LocalsAfterAngled(l) ==
  [l EXCEPT !.dx = RSub(l.x_high, l.x_low), !.dy = RSub(l.y_high, l.y_low)]

\* Lines 259-345: the angled lines, then the goalposts of every label.
AngledAndTicks(d, m, l) ==
  AngledLines(l) \o Concat([i \in 1..Len(m) |-> TicksFor(m[i], d, l)])

\* Lines 351-361: the first label the box loop does not skip reads dy
\* (line 361), which is assigned only inside the branch of line 246.
BoxLoopRaises(m, l) ==
  l.dy = Unbound /\ \E i \in 1..Len(m) : BoxEligible(m[i], l)

\* Lines 351-439.
Boxes(m, l) ==
  Concat([i \in 1..Len(m) |-> IF BoxEligible(m[i], l) THEN BoxFor(m[i], l) ELSE <<>>])

\* Lines 445-454.
Centerline(l) ==
  Line(R(0), RSub(l.y_min, R(CENTERLINE_MARGIN)), R(0), RAdd(l.y_max, R(CENTERLINE_MARGIN)),
       LAYER_CENTERLINE, "centerline", "none", <<>>)

\* Lines 459-468.
Title(l) == Text(R(0), RAdd(l.y_max, R(TITLE_MARGIN)), TITLE_HEIGHT, "title", <<>>)

\* draw_tower as a function of the dataframe: the entities added to the
\* modelspace, the exception raised (if any) and the y of every label.
DrawTower(d) ==
  LET m == compute_y_maps(d).y_variant_map
      l1 == LocalsAfterExtremes(d, m, LocalsAfterMaps(m))
      l2 == IF HasAngled(l1) THEN LocalsAfterAngled(l1) ELSE l1
      e1 == Horizontals(m) \o (IF HasAngled(l1) THEN AngledAndTicks(d, m, l2) ELSE <<>>)
      raises == BoxLoopRaises(m, l2)
  IN [err |-> IF raises THEN "UnboundLocalError" ELSE "none",
      msp |-> IF raises THEN e1
              ELSE e1 \o Boxes(m, l2) \o <<Centerline(l2), Title(l2)>>,
      y_variant_map |-> m]

\* --------------------------------------------------------------- actions

\* Labels, distance cells and half-diagonal cells of the towers drawn.
LabelPool ==
  { <<"N">>,
    <<"-", "4">>,
    <<"6", "/", "+", "0", ",", "7">>,
    <<"-", "1", " ", "/", " ", "+", "1">> }

\* A row's "distance on the ground" and "square half-diagonal" cells.
CellPool ==
  { <<NaNCell, <<"3", "0", "0">> >>,
    << <<"8", "9", "9", "8">>, <<"3", "0", "0">> >>,
    << <<"7", "6", "1", "6">>, NaNCell >> }

RowPool == {[lt |-> l, dist |-> c[1], half |-> c[2]] : l \in LabelPool, c \in CellPool}

\* Characters of the labels drawn by the label-level specification.
LabelAlphabet == {"N", "5", "+", "-", " ", "/", "(", ",", "."}

LabelStrings == UNION {[1..n -> LabelAlphabet] : n \in 0..MaxLen}

Init ==
  /\ df \in UNION {[1..n -> RowPool] : n \in 1..MaxRows}
  /\ pc = "start"
  /\ maps = EmptyMaps
  /\ msp = <<>>
  /\ loc = NoLocals
  /\ err = "none"
  /\ nb = <<>>

InitLabel ==
  /\ df \in {<<[lt |-> s, dist |-> NaNCell, half |-> NaNCell]>> : s \in LabelStrings}
  /\ pc = "start"
  /\ maps = EmptyMaps
  /\ msp = <<>>
  /\ loc = NoLocals
  /\ err = "none"
  /\ nb = <<>>

\* Lines 174-181.
ComputeYMaps ==
  /\ pc = "start"
  /\ maps' = compute_y_maps(df)
  /\ IF maps'.y_variant_map = <<>>
     THEN pc' = "done" /\ loc' = loc
     ELSE pc' = "horizontals" /\ loc' = LocalsAfterMaps(maps'.y_variant_map)
  /\ UNCHANGED <<df, msp, err, nb>>

\* Lines 185-219.
DrawHorizontals ==
  /\ pc = "horizontals"
  /\ msp' = msp \o Horizontals(maps.y_variant_map)
  /\ pc' = "extremes"
  /\ UNCHANGED <<df, maps, loc, err, nb>>

\* Lines 224-243.
FindExtremes ==
  /\ pc = "extremes"
  /\ loc' = LocalsAfterExtremes(df, maps.y_variant_map, loc)
  /\ pc' = "angled"
  /\ UNCHANGED <<df, maps, msp, err, nb>>

\* Lines 246-345, the branch taken.
DrawAngled ==
  /\ pc = "angled"
  /\ HasAngled(loc)
  /\ loc' = LocalsAfterAngled(loc)
  /\ msp' = msp \o AngledAndTicks(df, maps.y_variant_map, loc')
  /\ pc' = "boxes"
  /\ UNCHANGED <<df, maps, err, nb>>

\* Line 246, the branch not taken.
SkipAngled ==
  /\ pc = "angled"
  /\ ~HasAngled(loc)
  /\ pc' = "boxes"
  /\ UNCHANGED <<df, maps, msp, loc, err, nb>>

\* Lines 351-439.
DrawBoxes ==
  /\ pc = "boxes"
  /\ IF BoxLoopRaises(maps.y_variant_map, loc)
     THEN /\ err' = "UnboundLocalError"
          /\ pc' = "raised"
          /\ msp' = msp
     ELSE /\ err' = err
          /\ pc' = "centerline"
          /\ msp' = msp \o Boxes(maps.y_variant_map, loc)
  /\ UNCHANGED <<df, maps, loc, nb>>

\* Lines 445-454.
DrawCenterline ==
  /\ pc = "centerline"
  /\ msp' = Append(msp, Centerline(loc))
  /\ pc' = "title"
  /\ UNCHANGED <<df, maps, loc, err, nb>>

\* Lines 459-468.
DrawTitle ==
  /\ pc = "title"
  /\ msp' = Append(msp, Title(loc))
  /\ pc' = "done"
  /\ UNCHANGED <<df, maps, loc, err, nb>>

\* normalize_base applied to the label, then to its own result.
NormalizeBase ==
  /\ pc = "start"
  /\ Len(nb) < 2
  /\ nb' = Append(nb, normalize_base(IF nb = <<>> THEN df[1].lt ELSE nb[Len(nb)]))
  /\ UNCHANGED <<df, pc, maps, msp, loc, err>>

Next ==
  \/ ComputeYMaps
  \/ DrawHorizontals
  \/ FindExtremes
  \/ DrawAngled
  \/ SkipAngled
  \/ DrawBoxes
  \/ DrawCenterline
  \/ DrawTitle

NextLabel == ComputeYMaps

NextNormalize == NormalizeBase

Spec == Init /\ [][Next]_vars

\* compute_y_maps on a tower of one row, for every label up to MaxLen.
SpecLabel == InitLabel /\ [][NextLabel]_vars

\* normalize_base on every label up to MaxLen.
SpecNormalize == InitLabel /\ [][NextNormalize]_vars

\* ---------------------------------------------------------------- claims

Range(q) == {q[i] : i \in 1..Len(q)}

\* The angled-line, goalpost and slanted-box segments of a modelspace.
Slanted(q) == {e \in Range(q) : e.part \in {"angled", "tick", "box"}}

Segment(e) == <<e.x1, e.y1, e.x2, e.y2, e.layer>>

PastAngled == pc \in {"boxes", "centerline", "title", "done", "raised"}

Finished == pc \in {"done", "raised"}

\* The label of the one-row tower of SpecLabel and SpecNormalize.
TheLabel == df[1].lt

\* The ground distance of a label: that of its first row.
GroundDistance(lt) == parse_distance(FirstRow(df, lt).dist)

\* C1: a tower whose extreme labels share one Y, or whose lowest or highest
\* label has no ground distance, gets no angled line, goalpost or box, and
\* draw_tower completes without raising, the centerline and title drawn.
C1_DegenerateTowerCompletes ==
  (PastAngled /\ ~HasAngled(loc)) =>
    /\ err = "none"
    /\ pc # "raised"
    /\ Slanted(msp) = {}
    /\ pc = "done" => /\ \E e \in Range(msp) : e.part = "centerline"
                      /\ \E e \in Range(msp) : e.part = "title"

\* C2: a base that is neither "N" nor a number makes compute_y_maps fail;
\* no Y is assigned to any label of that base.
C2_MalformedBaseFails ==
  LET base == normalize_base(TheLabel)
  IN (pc # "start" /\ base # <<"N">> /\ PyFloat(ReplaceChar(base, ",", ".")) = None) =>
       /\ err # "none"
       /\ maps.y_variant_map = <<>>
       /\ maps.y_base_map = <<>>

\* The first signed decimal number of p, the sign separated from the digits
\* by any amount of whitespace: <<neg, integer digits, fraction digits>>.
RECURSIVE SkipWs(_, _)
SkipWs(p, j) == IF j <= Len(p) /\ IsWs(p[j]) THEN SkipWs(p, j + 1) ELSE j

SignedNumber(p) ==
  LET DigitsAt(i) ==
        IF p[i] \in {"+", "-"} /\ DigitRun(p, SkipWs(p, i + 1)) > 0 THEN SkipWs(p, i + 1)
        ELSE IF IsDigit(p[i]) THEN i
        ELSE 0
      starts == {i \in 1..Len(p) : DigitsAt(i) > 0}
  IN IF starts = {} THEN None
     ELSE LET i == CHOOSE k \in starts : \A m \in starts : k <= m
              j == DigitsAt(i)
              e == j + DigitRun(p, j)
              fn == IF e <= Len(p) /\ p[e] \in {".", ","}
                    THEN DigitRun(p, e + 1) ELSE 0
          IN Decimal(j > i /\ p[i] = "-", SubSeq(p, j, e - 1),
                     IF fn > 0 THEN SubSeq(p, e + 1, e + fn) ELSE <<>>)

\* C3: a label with an offset x after its first '/' gets Y = Ybase - 1000*x,
\* x the first signed decimal number after the slash, whatever the decimal
\* separator and the spacing, a space between sign and digits included
\* (stated for the labels whose base is "N" or a number).
C3_OffsetFormatInsensitive ==
  LET x == IF Contains(TheLabel, "/")
           THEN SignedNumber(Before(After(TheLabel, "/"), "("))
           ELSE None
      base == normalize_base(TheLabel)
      wellFormed == base = <<"N">> \/ PyFloat(ReplaceChar(base, ",", ".")) # None
  IN (pc # "start" /\ wellFormed /\ x # None) =>
       Lookup(maps.y_variant_map, TheLabel) =
         RSub(Lookup(maps.y_base_map, normalize_base(TheLabel)), RMul(R(1000), x))

C5_NormalizeIdempotent == Len(nb) = 2 => nb[2] = nb[1]

\* f is e mirrored about X = 0, on the same layer.
Mirrored(e, f) ==
  /\ f.layer = e.layer
  /\ f.part = e.part
  /\ \/ <<f.x1, f.y1, f.x2, f.y2>> = <<RNeg(e.x1), e.y1, RNeg(e.x2), e.y2>>
     \/ <<f.x1, f.y1, f.x2, f.y2>> = <<RNeg(e.x2), e.y2, RNeg(e.x1), e.y1>>

\* C6: every angled-line, goalpost and box segment of one side has a segment
\* of the other side on the same layer with the same endpoints, X negated.
C6_MirrorSymmetric ==
  \A e \in Slanted(msp) : \E f \in Slanted(msp) : f.side # e.side /\ Mirrored(e, f)

C6_Witness ==
  /\ pc = "done"
  /\ \E e \in Slanted(msp) : e.part = "angled" /\ e.x1 # e.x2
  /\ \E e \in Slanted(msp) : e.part = "tick"
  /\ \E e \in Slanted(msp) : e.part = "box" /\ e.side = "pos" /\ e.x1 # e.x2

\* Indices of the labels of y_variant_map that have a ground distance.
KnownIdx == {i \in 1..Len(maps.y_variant_map) : GroundDistance(maps.y_variant_map[i][1]) # None}

\* C7 (as claimed): when two labels with a ground distance lie at different
\* Y, an angled line is built, from the lowest label that has a distance.
C7_ExtremesAmongKnownDistances ==
  LET m == maps.y_variant_map
  IN (PastAngled /\ \E i, j \in KnownIdx : m[i][2] # m[j][2]) =>
       \E e \in Slanted(msp) : \E lo \in KnownIdx :
         /\ e.part = "angled" /\ e.side = "pos"
         /\ \A k \in KnownIdx : RLe(m[lo][2], m[k][2])
         /\ e.y1 = m[lo][2]
         /\ e.x1 = GroundDistance(m[lo][1])

\* C7 (amended): low and high are the labels of least and greatest Y among
\* all labels, with or without a ground distance; when the distance of
\* either is missing no angled line is built, and an angled line starts at
\* the overall lowest label.
C7_ExtremesAmongAllLabels ==
  LET m == maps.y_variant_map
  IN PastAngled =>
       /\ \A i \in 1..Len(m) : RLe(loc.y_low, m[i][2]) /\ RLe(m[i][2], loc.y_high)
       /\ Lookup(m, loc.lowest) = loc.y_low
       /\ Lookup(m, loc.highest) = loc.y_high
       /\ loc.x_low = GroundDistance(loc.lowest)
       /\ loc.x_high = GroundDistance(loc.highest)
       /\ (loc.x_low = None \/ loc.x_high = None) => Slanted(msp) = {}
       /\ \A e \in Slanted(msp) :
            (e.part = "angled" /\ e.side = "pos") => e.x1 = loc.x_low /\ e.y1 = loc.y_low

C7_Witness ==
  LET m == maps.y_variant_map
  IN /\ Finished
     /\ GroundDistance(loc.lowest) = None
     /\ \A i \in 1..Len(m) : m[i][2] = loc.y_low => m[i][1] = loc.lowest
     /\ \E i, j \in KnownIdx : m[i][2] # m[j][2]
     /\ Slanted(msp) = {}

Perms(n) == {p \in [1..n -> 1..n] : \A i, j \in 1..n : p[i] = p[j] => i = j}

\* C8: the Y of every label and the set of angled-line, goalpost and box
\* segments of a drawn tower are the same for every order of its rows.
C8_OrderIndependent ==
  pc = "done" =>
    \A p \in Perms(Len(df)) :
      LET r == DrawTower([i \in 1..Len(df) |-> df[p[i]]])
      IN /\ Range(r.y_variant_map) = Range(maps.y_variant_map)
         /\ {Segment(e) : e \in Slanted(r.msp)} = {Segment(e) : e \in Slanted(msp)}

\* C9: with both extreme distances known and y_high # y_low, the positive
\* angled line runs from (x_low, y_low) to
\* (x_high + (x_high - x_low) * 1200 / (y_high - y_low), y_high + 1200), a
\* point collinear with (x_low, y_low) and (x_high, y_high).
C9_AngledLineExtended ==
  (PastAngled /\ HasAngled(loc)) =>
    LET x_low == GroundDistance(loc.lowest)
        x_high == GroundDistance(loc.highest)
        y_low == Lookup(maps.y_variant_map, loc.lowest)
        y_high == Lookup(maps.y_variant_map, loc.highest)
        pos == {e \in Slanted(msp) : e.part = "angled" /\ e.side = "pos"}
    IN /\ Cardinality(pos) = 1
       /\ \A e \in pos :
            /\ e.layer = "ANGLED_LINES"
            /\ <<e.x1, e.y1>> = <<x_low, y_low>>
            /\ e.y2 = RAdd(y_high, R(1200))
            /\ e.x2 = RAdd(x_high, RDiv(RMul(RSub(x_high, x_low), R(1200)),
                                        RSub(y_high, y_low)))
            /\ RMul(RSub(e.x2, x_low), RSub(y_high, y_low)) =
                 RMul(RSub(x_high, x_low), RSub(e.y2, y_low))

C9_Witness ==
  /\ pc = "done"
  /\ <<loc.x_low, loc.y_low>> = <<R(8998), R(-6700)>>
  /\ <<loc.x_high, loc.y_high>> = <<R(7616), R(4000)>>
  /\ \E e \in Slanted(msp) :
       /\ e.part = "angled" /\ e.side = "pos"
       /\ <<e.x2, e.y2>> = << <<798328, 107>>, R(5200) >>

\* The box segments of one side: centre X, slope shift s, label height y.
ExpectedBox(X, s, y) ==
  LET lo == RAdd(y, R(100))
      hi == RAdd(y, R(500))
      l == RSub(X, R(353))
      r == RAdd(X, R(353))
  IN { <<l, lo, RAdd(l, s), hi>>,
       <<r, lo, RAdd(r, s), hi>>,
       <<RAdd(l, s), hi, RAdd(r, s), hi>> }

\* C10: with angled geometry, exactly the labels without offset whose Y lies
\* in [y_low, y_high] get a box: three BASE_VARIANTS segments per side, the
\* bottom at Y + 100, the top at Y + 500, bottom corners at the intersection
\* X +/- 353, the top shifted by +dx*400/dy (positive side) or -dx*400/dy
\* (negative side); a label with an offset gets no box segment.
C10_BoxesForBaseLabels ==
  (pc \in {"centerline", "title", "done"} /\ HasAngled(loc)) =>
    \A i \in 1..Len(maps.y_variant_map) :
      LET lt == maps.y_variant_map[i][1]
          y == maps.y_variant_map[i][2]
          Of(side) == {k \in 1..Len(msp) :
                         msp[k].part = "box" /\ msp[k].lt = lt /\ msp[k].side = side}
          Segs(side) == {<<msp[k].x1, msp[k].y1, msp[k].x2, msp[k].y2>> : k \in Of(side)}
          dx == RSub(loc.x_high, loc.x_low)
          dy == RSub(loc.y_high, loc.y_low)
          X == RAdd(loc.x_low, RDiv(RMul(dx, RSub(y, loc.y_low)), dy))
          s == RDiv(RMul(dx, R(400)), dy)
      IN IF parse_offset_value(lt) = None /\ RLe(loc.y_low, y) /\ RLe(y, loc.y_high)
         THEN /\ Cardinality(Of("pos")) = 3
              /\ Cardinality(Of("neg")) = 3
              /\ \A k \in Of("pos") \cup Of("neg") : msp[k].layer = "BASE_VARIANTS"
              /\ Segs("pos") = ExpectedBox(X, s, y)
              /\ Segs("neg") = ExpectedBox(RNeg(X), RNeg(s), y)
         ELSE Of("pos") \cup Of("neg") = {}

C10_Witness ==
  /\ pc = "done"
  /\ HasAngled(loc)
  /\ loc.x_low # loc.x_high
  /\ \E e \in Slanted(msp) : e.part = "box"
  /\ \E i \in 1..Len(maps.y_variant_map) :
       /\ parse_offset_value(maps.y_variant_map[i][1]) # None
       /\ \A e \in Slanted(msp) : e.part = "box" => e.lt # maps.y_variant_map[i][1]

====
